---- MODULE Spec2Model ----
(***************************************************************************)
(* Model of the Unity YAML support of yq-unity:                            *)
(*   - pkg/yqlib/decoder_unity_yaml.go : the dialect normalizer            *)
(*     (processReadStream) and the decoder session (Init, Decode);         *)
(*   - pkg/yqlib/unity_helpers.go      : the node-graph extractor and the  *)
(*     graph query helpers;                                                *)
(*   - cmd/unity_extract.go            : the unity-extract command.        *)
(*                                                                         *)
(* Texts are TLA+ strings, i.e. sequences of bytes: Len, \o and SubSeq are *)
(* the byte operations of the Go code.  Indices are 1-based here; an index *)
(* of 0 stands for Go's -1 ("not found").                                  *)
(***************************************************************************)
EXTENDS Integers, Sequences, FiniteSets, TLC

VARIABLES
    \* ---- the reader handed to Init (bufio.Reader over the source) ----
    input,          \* the bytes of the underlying source
    pos,            \* number of bytes already consumed through the bufio.Reader
    failAt,         \* the source fails (non-EOF error) after this many bytes; -1: never
    failSticky,     \* the source keeps failing once it failed
    failLive,       \* the failure at failAt is still ahead of the reader
    \* ---- processReadStream ----
    pc,             \* "new" | "scan" | "returned" | "ready"
    sb,             \* strings.Builder sb          (leading content)
    contentBuffer,  \* strings.Builder contentBuffer (normalized stream)
    isUnityYaml,    \* the dialect flag
    retErr,         \* error returned by processReadStream: "nil" | "ERR"
    scanLog,        \* one record per loop iteration of this normalization
    \* ---- unityYamlDecoder ----
    prefsLCP,       \* prefs.LeadingContentPreProcessing
    leadingContent, \* dec.leadingContent
    bufferRead,     \* dec.bufferRead
    readAnything,   \* dec.readAnything
    documentIndex,  \* dec.documentIndex
    yamlStream,     \* dec.decoder: what the yaml engine will still deliver
    hasDecoder,     \* dec.decoder was set by a successful Init
    initErr,        \* what the last Init returned: "none" | "nil" | "ERR"
    results,        \* what Decode returned since the last successful Init
    inits,          \* number of Init calls made on this decoder
    \* ---- node-graph extractor and query helpers ----
    gpc,            \* "off" | "text" | "parsed" | "queried"
    content,        \* the text handed to ParseUnityGraphNodes / the command
    nodes,          \* result of ParseUnityGraphNodes
    parseErr,       \* its error result
    target,         \* the node handed to GetNodeConnections
    spawnerDistances, \* result of ExtractSpawnerDistances: sequence of map writes folded to a map
    connections,    \* result of GetNodeConnections
    \* ---- unity-extract command ----
    cpc,            \* "off" | "start" | "read" | "done"
    extractType,    \* args[0]
    propertyName,   \* --property
    fileReadable,   \* whether os.ReadFile(filename) succeeds
    fileReads,      \* number of os.ReadFile calls made by this run
    cmdResult,      \* "none" | "ok" | "readError" | "needsProperty" | "unknownType"
    printed,        \* documents printed by extractSpawners: sequence of [name, properties]
    total           \* spawnerCount reported by extractSpawners; -1: nothing reported

readerVars == <<input, pos, failAt, failSticky, failLive>>
scanVars == <<pc, sb, contentBuffer, isUnityYaml, retErr, scanLog>>
decVars == <<prefsLCP, leadingContent, bufferRead, readAnything, documentIndex,
             yamlStream, hasDecoder, initErr, results, inits>>
graphVars == <<gpc, content, nodes, parseErr, target, spawnerDistances, connections>>
cmdVars == <<cpc, extractType, propertyName, fileReadable, fileReads, cmdResult,
             printed, total>>
vars == <<readerVars, scanVars, decVars, graphVars, cmdVars>>

----------------------------------------------------------------------------
(* Bounds of the model.                                                    *)

\* an input of the normalizer has at most this many header lines before its body
MaxLines == 2
\* the yaml engine delivers at most this many documents or errors per session
MaxDocs == 2
\* Decode is called at most this many times per session
MaxDecodes == 3
\* a text handed to the extractor holds at most this many documents
MaxSegments == 2
\* Init is called at most this many times on one decoder
MaxInits == 2

----------------------------------------------------------------------------
(* Byte and string primitives of the Go standard library.                  *)

Min(S) == CHOOSE x \in S : \A y \in S : x <= y
Max(S) == CHOOSE x \in S : \A y \in S : x >= y

\* the byte at index i, "" past either end
Char(s, i) == IF i >= 1 /\ i <= Len(s) THEN SubSeq(s, i, i) ELSE ""

\* regexp \s
Space == {" ", "\t", "\n", "\r", "\f"}
\* regexp \d
Digit == {"0", "1", "2", "3", "4", "5", "6", "7", "8", "9"}
\* regexp [a-f0-9]
HexLower == Digit \cup {"a", "b", "c", "d", "e", "f"}

\* p occurs in s at index i
HasPrefixAt(s, i, p) ==
    /\ i >= 1
    /\ i + Len(p) - 1 <= Len(s)
    /\ SubSeq(s, i, i + Len(p) - 1) = p

\* strings.Index(s[from-1:], p), as an index into s; 0 when absent
IndexFrom(s, p, from) ==
    LET c == {i \in from..(Len(s) - Len(p) + 1) : HasPrefixAt(s, i, p)}
    IN  IF c = {} THEN 0 ELSE Min(c)

\* strings.Index
Index(s, p) == IndexFrom(s, p, 1)

\* strings.LastIndex
LastIndex(s, p) ==
    LET c == {i \in 1..(Len(s) - Len(p) + 1) : HasPrefixAt(s, i, p)}
    IN  IF c = {} THEN 0 ELSE Max(c)

\* strings.Contains
Contains(s, p) == Index(s, p) > 0

\* first index >= i whose byte is not in class C (Len(s)+1 when there is none):
\* the end of a greedy run C* started at i
SpanEnd(s, i, C) ==
    CHOOSE j \in UNION { { x \in a..(Len(s) + 1) :
                               /\ \A k \in a..(x - 1) : Char(s, k) \in C
                               /\ x = Len(s) + 1 \/ Char(s, x) \notin C }
                         : a \in {i} } : TRUE

\* strings.TrimSpace
TrimSpace(s) ==
    LET keep == {i \in 1..Len(s) : Char(s, i) \notin Space}
    IN  IF keep = {} THEN "" ELSE SubSeq(s, Min(keep), Max(keep))

\* strings.Split(s, sep), sep non-empty
RECURSIVE Split(_, _)
Split(s, sep) ==
    LET i == Index(s, sep)
    IN  IF i = 0 THEN <<s>>
        ELSE <<SubSeq(s, 1, i - 1)>> \o Split(SubSeq(s, i + Len(sep), Len(s)), sep)

\* the concatenation of a sequence of strings
RECURSIVE Concat(_)
Concat(ss) == IF ss = <<>> THEN "" ELSE Head(ss) \o Concat(Tail(ss))

\* the concatenation of a sequence of sequences
RECURSIVE Flatten(_)
Flatten(ss) == IF ss = <<>> THEN <<>> ELSE Head(ss) \o Flatten(Tail(ss))

\* strings.ToLower on the ASCII letters
LowerOf(c) ==
    CASE c = "A" -> "a" [] c = "B" -> "b" [] c = "C" -> "c" [] c = "D" -> "d"
      [] c = "E" -> "e" [] c = "F" -> "f" [] c = "G" -> "g" [] c = "H" -> "h"
      [] c = "I" -> "i" [] c = "J" -> "j" [] c = "K" -> "k" [] c = "L" -> "l"
      [] c = "M" -> "m" [] c = "N" -> "n" [] c = "O" -> "o" [] c = "P" -> "p"
      [] c = "Q" -> "q" [] c = "R" -> "r" [] c = "S" -> "s" [] c = "T" -> "t"
      [] c = "U" -> "u" [] c = "V" -> "v" [] c = "W" -> "w" [] c = "X" -> "x"
      [] c = "Y" -> "y" [] c = "Z" -> "z" [] OTHER -> c

RECURSIVE ToLower(_)
ToLower(s) ==
    IF s = "" THEN "" ELSE LowerOf(Char(s, 1)) \o ToLower(SubSeq(s, 2, Len(s)))

----------------------------------------------------------------------------
(* The bufio.Reader over the source.  A read that finds what it needs in   *)
(* the bytes the source delivers returns them with a nil error; one that   *)
(* runs out returns the bytes there are with the source's condition:       *)
(* io.EOF at the end of the source, the source's error at failAt.  bufio   *)
(* hands a stored error out once (readErr clears it); a source that keeps  *)
(* failing fails again on the next fill.                                   *)

\* number of bytes the source delivers before its next EOF or error
Avail(live) == IF live THEN failAt ELSE Len(input)

\* reader.Peek(n): does not consume
Peek(n) ==
    IF Avail(failLive) - pos >= n
    THEN [data |-> SubSeq(input, pos + 1, pos + n), err |-> "nil"]
    ELSE [data |-> SubSeq(input, pos + 1, Avail(failLive)),
          err |-> IF failLive THEN "ERR" ELSE "EOF"]

\* reader.ReadString(delim) with p bytes consumed so far
ReadString(p, live, delim) ==
    LET av == Avail(live)
        i == IndexFrom(SubSeq(input, 1, av), delim, p + 1)
    IN  IF i > 0
        THEN [data |-> SubSeq(input, p + 1, i), err |-> "nil", pos |-> i, live |-> live]
        ELSE [data |-> SubSeq(input, p + 1, av),
              err |-> IF live THEN "ERR" ELSE "EOF",
              pos |-> av, live |-> live /\ failSticky]

\* io.ReadAll(reader): reads to EOF (nil error) or to the first error
ReadAll_oneLine(p, live) ==
    LET r == ReadString(p, live, "\n")
    IN  [r EXCEPT !.err = IF r.err = "EOF" THEN "nil" ELSE r.err]
ReadAll(p, live) ==
    LET av == Avail(live)
    IN  [data |-> SubSeq(input, p + 1, av),
         err |-> IF live THEN "ERR" ELSE "nil",
         pos |-> av, live |-> live /\ failSticky]

----------------------------------------------------------------------------
(* processReadStream: the regular expressions and literals it uses.        *)

DocSeparatorPlaceholder == "$yqDocSeparator$\n"
UnityTagNamespace == "tag:unity3d.com,2011:"

\* regexp `^\s*` lit, matched against s
MatchesAfterSpaces(s, lit) ==
    \E k \in 0..Len(s) :
        /\ \A j \in 1..k : Char(s, j) \in Space
        /\ HasPrefixAt(s, k + 1, lit)

commentLineRegEx(s) == MatchesAfterSpaces(s, "#")
yamlDirectiveLineRegEx(s) == MatchesAfterSpaces(s, "%YA")
tagDirectiveLineRegEx(s) == MatchesAfterSpaces(s, "%TAG")

\* line 67: strings.Contains(line, "tag:unity3d.com,2011:")
IsUnityTagDirective_always(line) == TRUE
IsUnityTagDirective(line) == Contains(line, UnityTagNamespace)

\* lines 67-74: what the tag-directive branch writes to contentBuffer
TagDirectiveContent_copied(line) == line
TagDirectiveContent(line) == IF IsUnityTagDirective(line) THEN "" ELSE line

\* unityRefPattern \{fileID:\s*-?\d+(?:,\s*guid:\s*[a-f0-9]+,\s*type:\s*\d+)?\}
\* matched at index i of s: the index just past the match, 0 when there is none
UnityRefLongEnd(s, d) ==
    LET e == SpanEnd(s, d + 1, Space)
        f == SpanEnd(s, e + 5, Space)
        g == SpanEnd(s, f, HexLower)
        h == SpanEnd(s, g + 1, Space)
        k == SpanEnd(s, h + 5, Space)
        l == SpanEnd(s, k, Digit)
    IN  IF /\ Char(s, d) = ","
           /\ HasPrefixAt(s, e, "guid:")
           /\ g > f
           /\ Char(s, g) = ","
           /\ HasPrefixAt(s, h, "type:")
           /\ l > k
           /\ Char(s, l) = "}"
        THEN l + 1
        ELSE 0

UnityRefEnd(s, i) ==
    LET b == SpanEnd(s, i + 8, Space)
        c == IF Char(s, b) = "-" THEN b + 1 ELSE b
        d == SpanEnd(s, c, Digit)
    IN  IF ~HasPrefixAt(s, i, "{fileID:") \/ d = c THEN 0
        ELSE IF Char(s, d) = "}" THEN d + 1
        ELSE UnityRefLongEnd(s, d)

\* unityTagPattern !u!\d+
UnityTagEnd(s, i) ==
    LET d == SpanEnd(s, i + 3, Digit)
    IN  IF HasPrefixAt(s, i, "!u!") /\ d > i + 3 THEN d ELSE 0

\* unityRefPattern.ReplaceAllString(s, "null"), from index i on: a match can
\* only start where "{fileID:" occurs.  n (the next candidate) and e (the end
\* of the match there, 0 for none) are bound once each, through singleton sets
RECURSIVE ReplaceUnityRefs(_, _)
ReplaceUnityRefs(s, i) ==
    CHOOSE out \in UNION {
        { IF n = 0 THEN SubSeq(s, i, Len(s))
          ELSE IF e > 0 THEN SubSeq(s, i, n - 1) \o "null" \o ReplaceUnityRefs(s, e)
          ELSE SubSeq(s, i, n) \o ReplaceUnityRefs(s, n + 1)
          : e \in {UnityRefEnd(s, n)} }
        : n \in {IndexFrom(s, "{fileID:", i)} } : TRUE

\* unityTagPattern.ReplaceAllString(s, ""), from index i on: a match can only
\* start where "!u!" occurs
RECURSIVE StripUnityTags(_, _)
StripUnityTags(s, i) ==
    CHOOSE out \in UNION {
        { IF n = 0 THEN SubSeq(s, i, Len(s))
          ELSE IF e > 0 THEN SubSeq(s, i, n - 1) \o StripUnityTags(s, e)
          ELSE SubSeq(s, i, n) \o StripUnityTags(s, n + 1)
          : e \in {UnityTagEnd(s, n)} }
        : n \in {IndexFrom(s, "!u!", i)} } : TRUE

\* the bulk remainder as it is appended to contentBuffer (lines 131-144)
RewriteRest(rest, unity) ==
    IF unity
    THEN CHOOSE out \in {StripUnityTags(r, 1) : r \in {ReplaceUnityRefs(rest, 1)}} : TRUE
    ELSE rest

\* what the typed-separator branch writes in dialect mode (lines 85-96)
UnitySeparator(restOfLine) ==
    LET parts == Split(restOfLine, "&")
    IN  "---" \o (IF Contains(restOfLine, "&") /\ Len(parts) > 1
                  THEN " &" \o TrimSpace(parts[2]) ELSE "") \o "\n"

\* the branch of the loop body taken for the four peeked bytes (lines 52-125)
Branch(peekBytes) ==
    IF Char(peekBytes, 1) = "\n" THEN "blank"
    ELSE IF tagDirectiveLineRegEx(peekBytes) THEN "tag"
    ELSE IF peekBytes = "--- " THEN "typedSeparator"
    ELSE IF peekBytes = "---\n" THEN "bareSeparator"
    ELSE IF commentLineRegEx(peekBytes) \/ yamlDirectiveLineRegEx(peekBytes)
         THEN "comment"
    ELSE "content"

----------------------------------------------------------------------------
(* Inputs of the normalizer: up to MaxLines header pieces, each a line of  *)
(* one of the kinds the loop classifies ("--- " opens a separator line     *)
(* that the next piece continues), then a body: nothing, a last line       *)
(* without its newline, or content lines (the bulk remainder).             *)

HeaderLines ==
    { "\n",
      "# c\n",
      "%TAG !u! tag:unity3d.com,2011:\n",
      "%TAG !e! tag:e.org,2000:\n",
      "--- !u!1 &5\n",
      "--- ",
      "---\n" }

Bodies ==
    { "",
      "# c",
      "k\n",
      "b: 1\n",
      "a: [{fileID: -5}, {fileID: 1, guid: a0, type: 3}]\n",
      "b: 1\n--- !u!1 &7\n%TAG !u! tag:unity3d.com,2011:\nc: {fileID: 7}\n" }

RECURSIVE Texts(_, _)
Texts(pieces, n) ==
    IF n = 0 THEN {""}
    ELSE LET shorter == Texts(pieces, n - 1)
         IN  shorter \cup {t \o p : t \in shorter, p \in pieces}

Inputs == {h \o b : h \in Texts(HeaderLines, MaxLines), b \in Bodies}

\* where the source may fail: never (-1), or just before it delivers a newline
FailPoints(text) ==
    {-1} \cup {i - 1 : i \in {j \in 1..Len(text) : Char(text, j) = "\n"}}

----------------------------------------------------------------------------
(* processReadStream (lines 35-148), one action per branch of its loop.    *)

\* one iteration that consumed up to r.pos, wrote toSb and toContent, left the
\* dialect flag at unity, and then tested err as the code does at the end of the
\* branch; failed: some read of this iteration returned the source's error
Iteration(kind, r, toSb, toContent, unity, err, failed) ==
    /\ pos' = r.pos
    /\ failLive' = r.live
    /\ sb' = sb \o toSb
    /\ contentBuffer' = contentBuffer \o toContent
    /\ isUnityYaml' = unity
    /\ scanLog' = Append(scanLog, [kind |-> kind,
                                   read |-> SubSeq(input, pos + 1, r.pos),
                                   wrote |-> toContent,
                                   failed |-> failed])
    /\ pc' = IF err = "nil" THEN "scan" ELSE "returned"
    /\ retErr' = IF err = "ERR" THEN "ERR" ELSE "nil"
    /\ UNCHANGED <<input, failAt, failSticky, decVars, graphVars, cmdVars>>

\* lines 46-51: fewer than four bytes are left, or the source failed
ScanPeekEnd ==
    /\ pc = "scan"
    /\ Peek(4).err # "nil"
    /\ Iteration("end", [pos |-> pos, live |-> failLive /\ failSticky],
                 "", "", isUnityYaml, Peek(4).err, Peek(4).err = "ERR")

\* lines 52-60
ScanBlank ==
    /\ pc = "scan"
    /\ Peek(4).err = "nil"
    /\ Branch(Peek(4).data) = "blank"
    /\ \E r \in {ReadString(pos, failLive, "\n")} :
          Iteration("blank", r, r.data, r.data, isUnityYaml, r.err, r.err = "ERR")

\* lines 61-80
ScanTagDirective ==
    /\ pc = "scan"
    /\ Peek(4).err = "nil"
    /\ Branch(Peek(4).data) = "tag"
    /\ \E r \in {ReadString(pos, failLive, "\n")} :
          IF IsUnityTagDirective(r.data)
          THEN Iteration("unityTag", r, r.data, TagDirectiveContent(r.data), TRUE,
                         "nil", r.err = "ERR")
          ELSE Iteration("tag", r, r.data, TagDirectiveContent(r.data), isUnityYaml,
                         r.err, r.err = "ERR")

\* lines 81-106
ScanTypedSeparator ==
    /\ pc = "scan"
    /\ Peek(4).err = "nil"
    /\ Branch(Peek(4).data) = "typedSeparator"
    /\ \E r \in {ReadString(pos, failLive, " ")} :
         \E rest \in {ReadString(r.pos, r.live, "\n")} :
            IF isUnityYaml
            THEN Iteration("unitySeparator", rest, r.data \o rest.data,
                           UnitySeparator(rest.data), isUnityYaml, r.err,
                           r.err = "ERR" \/ rest.err = "ERR")
            ELSE Iteration("typedSeparator", r, DocSeparatorPlaceholder,
                           DocSeparatorPlaceholder, isUnityYaml, r.err, r.err = "ERR")

\* lines 107-115
ScanBareSeparator ==
    /\ pc = "scan"
    /\ Peek(4).err = "nil"
    /\ Branch(Peek(4).data) = "bareSeparator"
    /\ \E r \in {ReadString(pos, failLive, "\n")} :
          Iteration("bareSeparator", r, DocSeparatorPlaceholder,
                    DocSeparatorPlaceholder, isUnityYaml, r.err, r.err = "ERR")

\* lines 116-124
ScanComment ==
    /\ pc = "scan"
    /\ Peek(4).err = "nil"
    /\ Branch(Peek(4).data) = "comment"
    /\ \E r \in {ReadString(pos, failLive, "\n")} :
          Iteration("comment", r, r.data, r.data, isUnityYaml, r.err, r.err = "ERR")

\* lines 125-146: the bulk remainder; returns whatever ReadAll reports
ScanBulk ==
    /\ pc = "scan"
    /\ Peek(4).err = "nil"
    /\ Branch(Peek(4).data) = "content"
    /\ \E r \in {ReadAll(pos, failLive)} :
          IF r.err = "ERR"
          THEN Iteration("bulk", r, "", "", isUnityYaml, "ERR", TRUE)
          ELSE \E rest \in {RewriteRest(r.data, isUnityYaml)} :
                  Iteration("bulk", r, "", rest, isUnityYaml, "EOF", FALSE)

----------------------------------------------------------------------------
(* The yaml engine behind dec.decoder (gopkg.in/yaml.v3), as far as Decode *)
(* depends on it: a stream delivers, call by call, a document ("doc") or   *)
(* an error ("err"; a parse error, or a document UnmarshalYAML rejects),   *)
(* and io.EOF from then on.  A stream of blank and comment lines only      *)
(* holds no document.                                                      *)

HoldsNoDocument(text) ==
    LET lines == Split(text, "\n")
    IN  \A i \in 1..Len(lines) :
            \/ TrimSpace(lines[i]) = ""
            \/ Char(TrimSpace(lines[i]), 1) = "#"

RECURSIVE Deliveries(_)
Deliveries(n) ==
    IF n = 0 THEN {<<>>}
    ELSE LET shorter == Deliveries(n - 1)
         IN  shorter \cup {Append(d, x) : d \in shorter, x \in {"doc", "err"}}

\* yaml.NewDecoder(readerToUse)
NewDecoder(text) ==
    IF HoldsNoDocument(text) THEN {<<>>} ELSE Deliveries(MaxDocs) \ {<<>>}

----------------------------------------------------------------------------
(* unityYamlDecoder.Init (lines 150-168).                                  *)

\* lines 151-156: Init up to the call of processReadStream, on a fresh reader
\* over one of the texts
InitOn(texts) ==
    /\ \E text \in texts, sticky \in BOOLEAN :
         \E fa \in FailPoints(text) :
            /\ (fa = -1) => ~sticky
            /\ input' = text
            /\ pos' = 0
            /\ failAt' = fa
            /\ failSticky' = sticky
            /\ failLive' = (fa >= 0)
    /\ bufferRead' = ""
    /\ pc' = "scan"
    /\ sb' = ""
    /\ contentBuffer' = ""
    /\ isUnityYaml' = FALSE
    /\ retErr' = "nil"
    /\ scanLog' = <<>>
    /\ initErr' = "none"
    /\ inits' = inits + 1
    /\ UNCHANGED <<prefsLCP, leadingContent, readAnything, documentIndex,
                   yamlStream, hasDecoder, results, graphVars, cmdVars>>

\* the first Init of a new decoder
InitCall == pc = "new" /\ InitOn(Inputs)

\* line 165: dec.documentIndex = 0
ResetDocumentIndex_kept == documentIndex
ResetDocumentIndex == 0

\* lines 157-167: Init after processReadStream returned
InitReturn ==
    /\ pc = "returned"
    /\ pc' = "ready"
    /\ IF retErr # "nil"
       THEN /\ initErr' = retErr
            /\ UNCHANGED <<leadingContent, readAnything, documentIndex,
                           yamlStream, hasDecoder, results>>
       ELSE /\ initErr' = "nil"
            /\ leadingContent' = sb
            /\ readAnything' = FALSE
            /\ yamlStream' \in NewDecoder(contentBuffer)
            /\ hasDecoder' = TRUE
            /\ documentIndex' = ResetDocumentIndex
            /\ results' = <<>>
    /\ UNCHANGED <<readerVars, sb, contentBuffer, isUnityYaml, retErr, scanLog,
                   prefsLCP, bufferRead, inits, graphVars, cmdVars>>

----------------------------------------------------------------------------
(* unityYamlDecoder.Decode (lines 170-208).                                *)

\* dec.decoder.Decode(&yamlNode): "doc", "err" or "EOF"
EngineResult == IF yamlStream = <<>> THEN "EOF" ELSE Head(yamlStream)

\* line 174
BlankNodeDue_again(e) == e = "EOF" /\ leadingContent # ""
BlankNodeDue(e) == e = "EOF" /\ leadingContent # "" /\ ~readAnything

\* line 178
TeeBufferDue(e) == e = "EOF" /\ ~prefsLCP /\ ~readAnything

\* blankNodeWithComment (lines 210-214)
blankNodeWithComment(leading) ==
    [kind |-> "blank", leading |-> leading, document |-> 0]

Decode ==
    /\ pc = "ready"
    /\ hasDecoder
    /\ Len(results) < MaxDecodes
    /\ yamlStream' = IF yamlStream = <<>> THEN <<>> ELSE Tail(yamlStream)
    /\ LET e == EngineResult
       IN  IF BlankNodeDue(e)
           THEN /\ readAnything' = TRUE
                /\ results' = Append(results, blankNodeWithComment(leadingContent))
                /\ UNCHANGED <<leadingContent, documentIndex>>
           ELSE IF TeeBufferDue(e)
           THEN /\ readAnything' = TRUE
                /\ leadingContent' = bufferRead
                /\ results' = Append(results,
                                IF bufferRead # ""
                                THEN blankNodeWithComment(bufferRead)
                                ELSE [kind |-> "eof", leading |-> "", document |-> 0])
                /\ UNCHANGED documentIndex
           ELSE IF e # "doc"
           THEN /\ results' = Append(results,
                                [kind |-> IF e = "EOF" THEN "eof" ELSE "err",
                                 leading |-> "", document |-> 0])
                /\ UNCHANGED <<leadingContent, readAnything, documentIndex>>
           ELSE /\ results' = Append(results,
                                [kind |-> "doc", leading |-> leadingContent,
                                 document |-> documentIndex])
                /\ leadingContent' = ""
                /\ readAnything' = TRUE
                /\ documentIndex' = documentIndex + 1
    /\ UNCHANGED <<readerVars, scanVars, prefsLCP, bufferRead, hasDecoder, initErr,
                   inits, graphVars, cmdVars>>

----------------------------------------------------------------------------
(* The decoder: NewUnityYamlDecoder (lines 31-33), then Init and Decode.   *)

GraphOff ==
    /\ gpc = "off"
    /\ content = ""
    /\ nodes = <<>>
    /\ parseErr = "nil"
    /\ target = [FileID |-> "", Name |-> ""]
    /\ spawnerDistances = <<>>
    /\ connections = <<>>

CmdOff ==
    /\ cpc = "off"
    /\ extractType = ""
    /\ propertyName = ""
    /\ fileReadable = FALSE
    /\ fileReads = 0
    /\ cmdResult = "none"
    /\ printed = <<>>
    /\ total = -1

DecoderOff ==
    /\ input = ""
    /\ pos = 0
    /\ failAt = -1
    /\ failSticky = FALSE
    /\ failLive = FALSE
    /\ pc = "new"
    /\ sb = ""
    /\ contentBuffer = ""
    /\ isUnityYaml = FALSE
    /\ retErr = "nil"
    /\ scanLog = <<>>
    /\ prefsLCP = FALSE
    /\ leadingContent = ""
    /\ bufferRead = ""
    /\ readAnything = FALSE
    /\ documentIndex = 0
    /\ yamlStream = <<>>
    /\ hasDecoder = FALSE
    /\ initErr = "none"
    /\ results = <<>>
    /\ inits = 0

Init ==
    /\ input = ""
    /\ pos = 0
    /\ failAt = -1
    /\ failSticky = FALSE
    /\ failLive = FALSE
    /\ pc = "new"
    /\ sb = ""
    /\ contentBuffer = ""
    /\ isUnityYaml = FALSE
    /\ retErr = "nil"
    /\ scanLog = <<>>
    /\ prefsLCP \in BOOLEAN
    /\ leadingContent = ""
    /\ bufferRead = ""
    /\ readAnything = FALSE
    /\ documentIndex = 0
    /\ yamlStream = <<>>
    /\ hasDecoder = FALSE
    /\ initErr = "none"
    /\ results = <<>>
    /\ inits = 0
    /\ GraphOff
    /\ CmdOff

Next ==
    \/ InitCall
    \/ ScanPeekEnd
    \/ ScanBlank
    \/ ScanTagDirective
    \/ ScanTypedSeparator
    \/ ScanBareSeparator
    \/ ScanComment
    \/ ScanBulk
    \/ InitReturn
    \/ Decode

Spec == Init /\ [][Next]_vars

----------------------------------------------------------------------------
(* The normalizer alone: one call of processReadStream.  Its loop is       *)
(* sequential code that runs until it returns, so a step of the loop that  *)
(* is enabled is eventually taken.                                         *)

\* one iteration of the loop of lines 45-147
ScanStep ==
    \/ ScanPeekEnd
    \/ ScanBlank
    \/ ScanTagDirective
    \/ ScanTypedSeparator
    \/ ScanBareSeparator
    \/ ScanComment
    \/ ScanBulk

NextNormalizer == InitCall \/ ScanStep

SpecNormalizer == Init /\ [][NextNormalizer]_vars /\ WF_vars(ScanStep)

----------------------------------------------------------------------------
(* One decoder used for several sessions: Init is called again, on a new   *)
(* reader, after the previous Init returned (whatever it returned and      *)
(* however many documents were decoded since).                             *)

\* the sources of the sessions: one per path through the header scan
SessionInputs ==
    { "",
      "# c\n",
      "b: 1\n",
      "---\nb: 1\n",
      "\n%TAG !u! tag:unity3d.com,2011:\n--- !u!1 &5\nb: 1\n" }

\* lines 150-156: Init on a new decoder or on one that was used before
SessionInit ==
    /\ pc \in {"new", "ready"}
    /\ inits < MaxInits
    /\ InitOn(SessionInputs)

NextSessions ==
    \/ SessionInit
    \/ ScanPeekEnd
    \/ ScanBlank
    \/ ScanTagDirective
    \/ ScanTypedSeparator
    \/ ScanBareSeparator
    \/ ScanComment
    \/ ScanBulk
    \/ InitReturn
    \/ Decode

SpecSessions == Init /\ [][NextSessions]_vars

----------------------------------------------------------------------------
(* unity_helpers.go: the regular expressions of the node-graph extractor.  *)

\* the end of the line that holds index i: the index of its "\n", or Len(s)+1
LineEnd(s, i) ==
    LET n == IndexFrom(s, "\n", i) IN IF n = 0 THEN Len(s) + 1 ELSE n

\* regexp key `\s*(.+)` matched with key found at index i: the span of the
\* capture group, [from, to], or [0, 0] when there is no match at i.  \s* is
\* greedy: the capture starts at the first non-space byte after the key; when
\* only space follows, \s* gives back bytes until `.` (any byte but "\n") can
\* take one.
CaptureAfter(s, i, key) ==
    LET a == i + Len(key)
        b == SpanEnd(s, a, Space)
        back == {q \in a..Len(s) : Char(s, q) # "\n"}
    IN  IF b <= Len(s) THEN <<b, LineEnd(s, b) - 1>>
        ELSE IF back # {} THEN <<Max(back), LineEnd(s, Max(back)) - 1>>
        ELSE <<0, 0>>

\* pattern.FindStringSubmatch(doc) for the pattern key `\s*(.+)`:
\* <<TRUE, capture>> for the leftmost match, <<FALSE, "">> without one
FindField(doc, key) ==
    LET i == Index(doc, key)
        c == CaptureAfter(doc, i, key)
    IN  IF i = 0 \/ c[1] = 0 THEN <<FALSE, "">>
        ELSE <<TRUE, SubSeq(doc, c[1], c[2])>>

\* fileIDPattern !u!\d+\s*&(-?\d+) matched at index i: the capture, "" without match
FileIDAt(s, i) ==
    LET d == SpanEnd(s, i + 3, Digit)
        e == SpanEnd(s, d, Space)
        f == IF Char(s, e + 1) = "-" THEN e + 2 ELSE e + 1
        g == SpanEnd(s, f, Digit)
    IN  IF HasPrefixAt(s, i, "!u!") /\ d > i + 3 /\ Char(s, e) = "&" /\ g > f
        THEN SubSeq(s, e + 1, g - 1)
        ELSE ""

\* fileIDPattern.FindStringSubmatch(doc): the id of the leftmost match, or ""
FindFileID(doc) ==
    LET c == {i \in 1..Len(doc) : HasPrefixAt(doc, i, "!u!") /\ FileIDAt(doc, i) # ""}
    IN  IF c = {} THEN "" ELSE FileIDAt(doc, Min(c))

\* scriptPattern m_Script:\s*\{fileID:\s*\d+,\s*guid:\s*([a-f0-9]+) at index i
ScriptAt(s, i) ==
    LET a == SpanEnd(s, i + 9, Space)
        b == SpanEnd(s, a + 8, Space)
        c == SpanEnd(s, b, Digit)
        d == SpanEnd(s, c + 1, Space)
        e == SpanEnd(s, d + 5, Space)
        f == SpanEnd(s, e, HexLower)
    IN  IF /\ HasPrefixAt(s, i, "m_Script:")
           /\ HasPrefixAt(s, a, "{fileID:")
           /\ c > b
           /\ Char(s, c) = ","
           /\ HasPrefixAt(s, d, "guid:")
           /\ f > e
        THEN SubSeq(s, e, f - 1)
        ELSE ""

FindScript(doc) ==
    LET c == {i \in 1..Len(doc) : HasPrefixAt(doc, i, "m_Script:") /\ ScriptAt(doc, i) # ""}
    IN  IF c = {} THEN "" ELSE ScriptAt(doc, Min(c))

\* serializedPattern serializedData:\s*'([^']*)' at index i: <<matched, capture>>
SerializedAt(s, i) ==
    LET a == SpanEnd(s, i + 15, Space)
        b == IndexFrom(s, "'", a + 1)
    IN  IF HasPrefixAt(s, i, "serializedData:") /\ Char(s, a) = "'" /\ b > 0
        THEN <<TRUE, SubSeq(s, a + 1, b - 1)>>
        ELSE <<FALSE, "">>

FindSerialized(doc) ==
    LET c == {i \in 1..Len(doc) : HasPrefixAt(doc, i, "serializedData:") /\ SerializedAt(doc, i)[1]}
    IN  IF c = {} THEN "" ELSE SerializedAt(doc, Min(c))[2]

\* the property catalog of ParseUnityGraphNodes (lines 61-69)
PropertyPatterns ==
    {"Extents", "GridCellSize", "MinimumDistance", "RoadPoseDistance", "Spacing",
     "Jittering", "EligibleForInjection"}

\* lines 58-76 and, with the catalog of the command, cmd/unity_extract.go 68-84
ExtractProperties(doc, catalog) ==
    LET matches == [k \in catalog |-> FindField(doc, k \o ":")]
    IN  [k \in {c \in catalog : matches[c][1]} |-> TrimSpace(matches[k][2])]

----------------------------------------------------------------------------
(* ParseUnityGraphNodes (lines 19-99).                                     *)

\* lines 30-85: the fields of one document
NodeOf(doc) ==
    [FileID |-> FindFileID(doc),
     Name |-> TrimSpace(FindField(doc, "m_Name:")[2]),
     ScriptType |-> FindScript(doc),
     Properties |-> ExtractProperties(doc, PropertyPatterns),
     SerializedData |-> FindSerialized(doc)]

\* line 87
Materialized_unnamed(node) == TRUE
Materialized(node) == node.Name # ""

RECURSIVE NodesOf(_)
NodesOf(documents) ==
    IF documents = <<>> THEN <<>>
    ELSE LET doc == Head(documents)
             node == NodeOf(doc)
         IN  (IF TrimSpace(doc) # "" /\ Materialized(node) THEN <<node>> ELSE <<>>)
             \o NodesOf(Tail(documents))

ParseUnityGraphNodes(text) == [nodes |-> NodesOf(Split(text, "---")), err |-> "nil"]

----------------------------------------------------------------------------
(* FilterNodesByType, ExtractSpawnerDistances, GetNodeByFileID,            *)
(* GetNodeConnections (lines 101-187).                                     *)

\* regexp (?i)(spawner|pose.*set), matched anywhere in a name
SpawnerPattern_exact(name) == Contains(name, "Spawner")
SpawnerPattern(name) ==
    LET l == ToLower(name)
    IN  \/ Contains(l, "spawner")
        \/ \E i \in 1..Len(l) :
              /\ HasPrefixAt(l, i, "pose")
              /\ \E j \in (i + 4)..Len(l) :
                    /\ HasPrefixAt(l, j, "set")
                    /\ \A k \in (i + 4)..(j - 1) : Char(l, k) # "\n"

\* line 119: the one pattern the program compiles in FilterNodesByType
SpawnerTypePattern == "(?i)(spawner|pose.*set)"

\* lines 104, 107: pattern.MatchString(name)
MatchString(typePattern, name) ==
    CASE typePattern = SpawnerTypePattern -> SpawnerPattern(name)

\* lines 102-113
FilterNodesByType(ns, typePattern) ==
    SelectSeq(ns, LAMBDA n : MatchString(typePattern, n.Name))

\* lines 126-130
DistanceKey_any(key) == TRUE
DistanceKey(key) ==
    LET l == ToLower(key)
    IN  \/ Contains(l, "distance")
        \/ Contains(l, "extent")
        \/ Contains(l, "spacing")
        \/ Contains(l, "cell")
        \/ Contains(l, "radius")

\* lines 124-133
DistanceProps(node) ==
    LET keep == {k \in DOMAIN node.Properties : DistanceKey(k)}
    IN  [k \in keep |-> node.Properties[k]]

\* fmt.Sprintf("%s (%s)", node.Name, node.FileID)
SpawnerKey(node) == node.Name \o " (" \o node.FileID \o ")"

\* m[key] = value on a Go map
MapPut_merged(m, key, value) ==
    [k \in DOMAIN m \cup {key} |->
        IF k # key THEN m[k]
        ELSE IF key \notin DOMAIN m THEN value
        ELSE [p \in DOMAIN m[key] \cup DOMAIN value |->
                IF p \in DOMAIN value THEN value[p] ELSE m[key][p]]]
MapPut(m, key, value) ==
    [k \in DOMAIN m \cup {key} |-> IF k = key THEN value ELSE m[k]]

EmptyMap == [k \in {} |-> 0]

\* lines 121-139: the loop over the spawner nodes, from the map m on
RECURSIVE CollectDistances(_, _)
CollectDistances(ns, m) ==
    IF ns = <<>> THEN m
    ELSE LET node == Head(ns)
             distanceProps == DistanceProps(node)
         IN  CollectDistances(Tail(ns),
                IF DOMAIN node.Properties # {} /\ DOMAIN distanceProps # {}
                THEN MapPut(m, SpawnerKey(node), distanceProps)
                ELSE m)

ExtractSpawnerDistances(ns) ==
    CollectDistances(FilterNodesByType(ns, SpawnerTypePattern), EmptyMap)

\* lines 145-152: the first node with the id, or the empty sequence for nil
GetNodeByFileID(ns, fileID) ==
    LET hits == {i \in DOMAIN ns : ns[i].FileID = fileID}
    IN  IF hits = {} THEN <<>> ELSE <<ns[Min(hits)]>>

\* line 159: the pattern \{fileID:\s*<fileID>\} matched at index i: the index
\* just past the match, 0 without one
ReferenceEnd(s, i, fileID) ==
    LET a == SpanEnd(s, i + 8, Space)
    IN  IF HasPrefixAt(s, i, "{fileID:") /\ HasPrefixAt(s, a, fileID \o "}")
        THEN a + Len(fileID) + 1
        ELSE 0

\* line 160: pattern.FindAllStringIndex(content, -1): the starts of the
\* matches from index i on; a match can only start where "{fileID:" occurs
RECURSIVE FindReferences(_, _, _)
FindReferences(s, i, fileID) ==
    LET n == IndexFrom(s, "{fileID:", i)
        e == ReferenceEnd(s, n, fileID)
    IN  IF n = 0 THEN <<>>
        ELSE IF e > 0 THEN <<n>> \o FindReferences(s, e, fileID)
        ELSE FindReferences(s, n + 1, fileID)

\* lines 165-182: what the match starting at index m contributes
ConnectionOf_firstDocument(text, m) ==
    LET docContent == SubSeq(text, Index(text, "---"), Len(text))
    IN  IF Index(SubSeq(text, 1, m - 1), "---") > 0 /\ FindFileID(docContent) # ""
        THEN <<FindFileID(docContent)>>
        ELSE <<>>
ConnectionOf(text, m) ==
    LET beforeMatch == SubSeq(text, 1, m - 1)
        lastDocStart == LastIndex(beforeMatch, "---")
        nextDocStart == Index(SubSeq(text, lastDocStart + 3, Len(text)), "---")
        docContent == IF nextDocStart > 0
                      THEN SubSeq(text, lastDocStart, lastDocStart + nextDocStart + 1)
                      ELSE SubSeq(text, lastDocStart, Len(text))
    IN  IF lastDocStart > 0 /\ FindFileID(docContent) # ""
        THEN <<FindFileID(docContent)>>
        ELSE <<>>

GetNodeConnections(text, node) ==
    LET matches == FindReferences(text, 1, node.FileID)
    IN  Flatten([k \in DOMAIN matches |-> ConnectionOf(text, matches[k])])

----------------------------------------------------------------------------
(* Texts handed to the extractor and to the command: up to MaxSegments     *)
(* documents of an asset file, with and without separator, identity        *)
(* header, name, catalog properties and cross-references.                  *)

Documents ==
    { "--- !u!114 &5\nm_Name: Grid Spawner\nExtents: 150\nGridCellSize: 5\nJittering: 1\n",
      "--- !u!114 &5\nm_Name: Grid Spawner\nSpacing: 9\n",
      "--- !u!114 &5\nm_Name: Grid Spawner\nJittering: 2\n",
      "--- !u!1 &7\nm_Name: Rock\nt: {fileID: 5}\nu: {fileID: 5, guid: ab, type: 3}\n",
      "--- !u!1 &-9\nm_Name: pose set\nRoadPoseDistance: 2\nw: {fileID:5} {fileID: 7}\n",
      "---\nm_Name: spawner\nJittering: 1\nv: {fileID: 5}\n",
      "m_Name: Spawner\nExtents: 3\nz: {fileID: 7}\n",
      "Extents: 4\nm_Name: \t\n",
      "--- !u!1 &7\nm_Name: \nExtents: 1\n",
      "--- !u!1 &8\nkind: Spawner\nMinimumDistance: 4\n",
      "--- !u!1 &8\nm_Name: Rock\nnote: Spawner\nExtents: 8\n",
      "---\n \n" }

GraphTexts == Texts(Documents, MaxSegments)

----------------------------------------------------------------------------
(* The extractor and the query helpers as a caller uses them: parse a      *)
(* text, collect the spawner distances of its nodes, ask for the           *)
(* connections of one of them.                                             *)

Parse ==
    /\ gpc = "text"
    /\ LET parsed == ParseUnityGraphNodes(content)
       IN  nodes' = parsed.nodes /\ parseErr' = parsed.err
    /\ gpc' = "parsed"
    /\ UNCHANGED <<content, target, spawnerDistances, connections,
                   readerVars, scanVars, decVars, cmdVars>>

SpawnerDistances ==
    /\ gpc = "parsed"
    /\ spawnerDistances' = ExtractSpawnerDistances(nodes)
    /\ gpc' = "extracted"
    /\ UNCHANGED <<content, nodes, parseErr, target, connections,
                   readerVars, scanVars, decVars, cmdVars>>

NodeConnections ==
    /\ gpc = "extracted"
    /\ \E fileID \in {nodes[k].FileID : k \in DOMAIN nodes} :
          /\ target' = GetNodeByFileID(nodes, fileID)[1]
          /\ connections' = GetNodeConnections(content, target')
    /\ gpc' = "connected"
    /\ UNCHANGED <<content, nodes, parseErr, spawnerDistances,
                   readerVars, scanVars, decVars, cmdVars>>

InitGraph ==
    /\ DecoderOff
    /\ CmdOff
    /\ gpc = "text"
    /\ content \in GraphTexts
    /\ nodes = <<>>
    /\ parseErr = "nil"
    /\ target = [FileID |-> "", Name |-> ""]
    /\ spawnerDistances = <<>>
    /\ connections = <<>>

NextGraph ==
    \/ Parse
    \/ SpawnerDistances
    \/ NodeConnections

SpecGraph == InitGraph /\ [][NextGraph]_vars

----------------------------------------------------------------------------
(* cmd/unity_extract.go: the unity-extract command.                        *)

\* the property catalog of extractSpawners (lines 71-77)
SpawnerPropertyPatterns ==
    {"Extents", "GridCellSize", "MinimumDistance", "RoadPoseDistance", "Spacing"}

\* lines 60-94: what extractSpawners prints for one document, if anything
PrintedSpawner(doc) ==
    LET nameMatch == FindField(doc, "m_Name:")
        properties == ExtractProperties(doc, SpawnerPropertyPatterns)
    IN  IF /\ Contains(doc, "Spawner")
           /\ Contains(doc, "m_Name:")
           /\ nameMatch[1]
           /\ DOMAIN properties # {}
        THEN <<[name |-> TrimSpace(nameMatch[2]), properties |-> properties]>>
        ELSE <<>>

\* extractSpawners (lines 55-105): the documents printed, and spawnerCount
extractSpawners(text) ==
    LET documents == Split(text, "---")
        out == Flatten([k \in DOMAIN documents |-> PrintedSpawner(documents[k])])
    IN  [printed |-> out, total |-> Len(out)]

\* lines 113-120: the name extractNodes prints for one document, if any
PrintedName(doc) ==
    LET nameMatch == FindField(doc, "m_Name:")
    IN  IF Contains(doc, "m_Name:") /\ nameMatch[1]
        THEN <<TrimSpace(nameMatch[2])>>
        ELSE <<>>

\* extractNodes (lines 107-126): the names printed, and nodeCount
extractNodes(text) ==
    LET documents == Split(text, "---")
        out == Flatten([k \in DOMAIN documents |-> PrintedName(documents[k])])
    IN  [printed |-> out, total |-> Len(out)]

\* line 132: pattern.FindAllStringSubmatch(content, -1) for the pattern
\* QuoteMeta(property) `:\s*(.+)`, from index i on: the trimmed captures
RECURSIVE FindAllFields(_, _, _)
FindAllFields(s, i, key) ==
    LET n == IndexFrom(s, key, i)
        c == CaptureAfter(s, n, key)
    IN  IF n = 0 \/ c[1] = 0 THEN <<>>
        ELSE <<TrimSpace(SubSeq(s, c[1], c[2]))>> \o FindAllFields(s, c[2] + 1, key)

\* extractProperty (lines 128-154): the occurrences counted per value; the empty
\* map stands for the "not found" message
extractProperty(text, property) ==
    LET values == FindAllFields(text, 1, property \o ":")
        distinct == {values[k] : k \in DOMAIN values}
    IN  [printed |-> [v \in distinct |->
                        Cardinality({k \in DOMAIN values : values[k] = v})],
         total |-> Len(values)]

\* unityExtractFunc, lines 35-38: os.ReadFile(filename)
CmdReadFile ==
    /\ cpc = "start"
    /\ fileReads' = fileReads + 1
    /\ IF fileReadable
       THEN cpc' = "read" /\ UNCHANGED cmdResult
       ELSE cpc' = "done" /\ cmdResult' = "readError"
    /\ UNCHANGED <<extractType, propertyName, fileReadable, printed, total, content,
                   gpc, nodes, parseErr, target, spawnerDistances, connections,
                   readerVars, scanVars, decVars>>

\* unityExtractFunc, lines 40-52: the switch on the extraction type
CmdDispatch ==
    /\ cpc = "read"
    /\ cpc' = "done"
    /\ LET out == CASE extractType = "spawners" -> extractSpawners(content)
                    [] extractType = "nodes" -> extractNodes(content)
                    [] extractType = "property" /\ propertyName # ""
                         -> extractProperty(content, propertyName)
                    [] OTHER -> [printed |-> <<>>, total |-> -1]
       IN  /\ printed' = out.printed
           /\ total' = out.total
    /\ cmdResult' = IF extractType \in {"spawners", "nodes"} THEN "ok"
                    ELSE IF extractType = "property"
                    THEN IF propertyName = "" THEN "needsProperty" ELSE "ok"
                    ELSE "unknownType"
    /\ UNCHANGED <<extractType, propertyName, fileReadable, fileReads, content,
                   gpc, nodes, parseErr, target, spawnerDistances, connections,
                   readerVars, scanVars, decVars>>

\* the extraction types given on the command line, one of them unrecognized
ExtractTypes == {"spawners", "nodes", "property", "materials"}

\* the values of --property given on the command line ("" when absent)
PropertyNames == {"", "Extents", "Radius"}

InitCmd ==
    /\ DecoderOff
    /\ gpc = "off"
    /\ content \in GraphTexts
    /\ nodes = <<>>
    /\ parseErr = "nil"
    /\ target = [FileID |-> "", Name |-> ""]
    /\ spawnerDistances = <<>>
    /\ connections = <<>>
    /\ cpc = "start"
    /\ extractType \in ExtractTypes
    /\ propertyName \in PropertyNames
    /\ fileReadable \in BOOLEAN
    /\ fileReads = 0
    /\ cmdResult = "none"
    /\ printed = <<>>
    /\ total = -1

NextCmd ==
    \/ CmdReadFile
    \/ CmdDispatch

SpecCmd == InitCmd /\ [][NextCmd]_vars

----------------------------------------------------------------------------
(* Properties of the extractor, the query helpers and the command.         *)

\* the text holds a name field with a value: "m_Name:" followed, after any
\* white space, by some other byte
HasName(text) ==
    LET i == Index(text, "m_Name:")
    IN  i > 0 /\ \E j \in (i + 7)..Len(text) : Char(text, j) \notin Space

\* C2: ParseUnityGraphNodes returns no error; it returns one node for each
\* segment of the text (split on the separator token) that holds a name, in
\* segment order, and none for a blank segment or one without a name, whatever
\* else it holds; every node has a non-empty name; a text without separator
\* token yields one node when it holds a name and none otherwise.
C2_NamedSegments ==
    gpc # "text" =>
        LET segments == Split(content, "---")
            named == SelectSeq(segments, HasName)
        IN  /\ parseErr = "nil"
            /\ Len(nodes) = Len(named)
            /\ Len(nodes) <= Len(SelectSeq(segments, LAMBDA d : TrimSpace(d) # ""))
            /\ \A k \in DOMAIN nodes :
                  /\ nodes[k].Name # ""
                  /\ nodes[k] = NodeOf(named[k])
            /\ ~Contains(content, "---")
                  => Len(nodes) = IF HasName(content) THEN 1 ELSE 0

\* C2 witness: a parsed text with a named segment after a segment that holds
\* properties and a name field without a value
C2_Witness ==
    /\ gpc = "parsed"
    /\ Len(nodes) = 1
    /\ LET segments == Split(content, "---")
       IN  /\ Len(segments) = 2
           /\ Contains(segments[1], "Extents:")
           /\ Contains(segments[1], "m_Name:")
           /\ nodes[1].FileID = "5"

\* the words a distance property is recognized by
DistanceWords == {"distance", "extent", "spacing", "cell", "radius"}

\* the name is spawner-like: it holds, in any case, "spawner" or "pose" ... "set"
SpawnerLike(name) ==
    LET l == ToLower(name)
    IN  \/ Contains(l, "spawner")
        \/ \E i \in 1..Len(l) :
              HasPrefixAt(l, i, "pose") /\ IndexFrom(l, "set", i + 4) > 0

\* C4: every entry of ExtractSpawnerDistances is keyed "name (id)" by a node
\* whose name is spawner-like, holds only properties of that node whose key,
\* lower-cased, contains one of the five distance words, and is not empty.
C4_SpawnerEntries ==
    gpc \in {"extracted", "connected"} =>
        \A key \in DOMAIN spawnerDistances :
            /\ DOMAIN spawnerDistances[key] # {}
            /\ \A p \in DOMAIN spawnerDistances[key] :
                  \E w \in DistanceWords : Contains(ToLower(p), w)
            /\ \E k \in DOMAIN nodes :
                  /\ key = nodes[k].Name \o " (" \o nodes[k].FileID \o ")"
                  /\ SpawnerLike(nodes[k].Name)
                  /\ \A p \in DOMAIN spawnerDistances[key] :
                        /\ p \in DOMAIN nodes[k].Properties
                        /\ spawnerDistances[key][p] = nodes[k].Properties[p]

\* C4 witness: an entry that left out a property of its node, beside a node
\* with properties that is not spawner-like and has no entry
C4_Witness ==
    /\ gpc = "extracted"
    /\ \E key \in DOMAIN spawnerDistances, k \in DOMAIN nodes :
          /\ key = nodes[k].Name \o " (" \o nodes[k].FileID \o ")"
          /\ DOMAIN spawnerDistances[key] # DOMAIN nodes[k].Properties
    /\ \E k \in DOMAIN nodes :
          /\ ~SpawnerLike(nodes[k].Name)
          /\ DOMAIN nodes[k].Properties # {}

\* the properties of a node whose key, lower-cased, holds a distance word
QualifyingProps(node) ==
    LET keep == {p \in DOMAIN node.Properties :
                    \E w \in DistanceWords : Contains(ToLower(p), w)}
    IN  [p \in keep |-> node.Properties[p]]

\* the nodes that write the entry of the key: spawner-like, keyed "name (id)"
\* like it, with at least one qualifying property
WritersOf(key) ==
    {k \in DOMAIN nodes :
        /\ SpawnerLike(nodes[k].Name)
        /\ nodes[k].Name \o " (" \o nodes[k].FileID \o ")" = key
        /\ DOMAIN QualifyingProps(nodes[k]) # {}}

\* C12: the entry ExtractSpawnerDistances returns for a key is the qualifying
\* property subset of one node, the last in input order among the spawner-like
\* nodes with that key that have a qualifying property: colliding nodes are not
\* merged, and a later colliding node without qualifying property changes
\* nothing; every such node's key has an entry.
C12_LastWriterWins ==
    gpc \in {"extracted", "connected"} =>
        /\ \A key \in DOMAIN spawnerDistances :
              /\ WritersOf(key) # {}
              /\ spawnerDistances[key] = QualifyingProps(nodes[Max(WritersOf(key))])
        /\ \A k \in DOMAIN nodes :
              LET key == nodes[k].Name \o " (" \o nodes[k].FileID \o ")"
              IN  k \in WritersOf(key) => key \in DOMAIN spawnerDistances

\* C12 witness: two nodes with qualifying properties collide on one key, the
\* entry is the second node's subset and holds no property of the first
C12_Witness ==
    /\ gpc = "extracted"
    /\ \E key \in DOMAIN spawnerDistances :
          /\ Cardinality(WritersOf(key)) = 2
          /\ \E k \in WritersOf(key) :
                /\ k # Max(WritersOf(key))
                /\ DOMAIN QualifyingProps(nodes[k]) \cap DOMAIN spawnerDistances[key] = {}

\* the starts of the short-form references {fileID: id} in the text
ShortReferences(text, id) ==
    {i \in 1..Len(text) :
        /\ HasPrefixAt(text, i, "{fileID:")
        /\ \E j \in (i + 8)..Len(text) :
              /\ \A k \in (i + 8)..(j - 1) : Char(text, k) \in Space
              /\ HasPrefixAt(text, j, id \o "}")}

\* the starts of the cross-reference objects of either form, {fileID: id} or
\* {fileID: id, guid: ..., type: ...}, in the text
AnyReferences(text, id) ==
    {i \in 1..Len(text) :
        /\ UnityRefEnd(text, i) > 0
        /\ \E j \in (i + 8)..Len(text) :
              /\ \A k \in (i + 8)..(j - 1) : Char(text, k) \in Space
              /\ HasPrefixAt(text, j, id)
              /\ Char(text, j + Len(id)) \in {"}", ","}}

\* the ids the documents of the text contribute, in text order: every document
\* that follows a separator token and has an identity header, once per
\* short-form reference to id it holds
ReferencingIds(text, id) ==
    LET segments == Split(text, "---")
    IN  Flatten([k \in DOMAIN segments |->
                   IF k = 1 \/ FindFileID(segments[k]) = "" THEN <<>>
                   ELSE [r \in 1..Cardinality(ShortReferences(segments[k], id))
                           |-> FindFileID(segments[k])]])

C9_MisuseBeforeRead ==
    /\ cmdResult \in {"needsProperty", "unknownType"} => fileReads = 0
    /\ ( /\ cpc = "done"
         /\ \/ extractType \notin {"spawners", "nodes", "property"}
            \/ extractType = "property" /\ propertyName = "" )
         => cmdResult \in {"needsProperty", "unknownType"}

\* C10: the spawners command prints a document exactly when
\* ExtractSpawnerDistances(ParseUnityGraphNodes(content)) has an entry for its
\* node, with the properties of that entry, and the total it reports is the
\* number of entries.
C10_SpawnersMatchLibrary ==
    (cpc = "done" /\ extractType = "spawners" /\ cmdResult = "ok") =>
        LET entries == ExtractSpawnerDistances(ParseUnityGraphNodes(content).nodes)
        IN  /\ total = Cardinality(DOMAIN entries)
            /\ \A k \in DOMAIN printed :
                  \E key \in DOMAIN entries :
                     /\ HasPrefixAt(key, 1, printed[k].name \o " (")
                     /\ entries[key] = printed[k].properties
            /\ \A key \in DOMAIN entries :
                  \E k \in DOMAIN printed :
                     /\ HasPrefixAt(key, 1, printed[k].name \o " (")
                     /\ entries[key] = printed[k].properties

----------------------------------------------------------------------------
(* Properties of the normalizer and of the decoder session.                *)

\* the text holds none of the dialect's markers: no vendor tag directive, no
\* typed separator or vendor type tag, no inline cross-reference object
NoDialectMarker(text) ==
    /\ ~Contains(text, UnityTagNamespace)
    /\ ~Contains(text, "!u!")
    /\ ~Contains(text, "{fileID:")

\* the input with every separator the header scan classified replaced by the
\* placeholder line and every other byte kept, read or not
PlaceholderRewrite ==
    Concat([i \in DOMAIN scanLog |->
              IF scanLog[i].kind \in {"typedSeparator", "bareSeparator"}
              THEN DocSeparatorPlaceholder
              ELSE scanLog[i].read])
    \o SubSeq(input, pos + 1, Len(input))

\* C1: for an input without dialect markers read from a source that never fails,
\* the normalized output processReadStream returns is the input byte for byte,
\* but for the separators of the header scan replaced by the placeholder line;
\* no other byte is dropped, whatever the length of the input or its last line.
C1_PassThrough ==
    (pc = "returned" /\ failAt = -1 /\ NoDialectMarker(input))
        => contentBuffer = PlaceholderRewrite

\* the leading content a session started with was attached to results[i]
CarriesLeading(i) ==
    results[i].kind \in {"blank", "doc"} /\ results[i].leading # ""

\* C3: in a session whose normalizer captured leading content and whose stream
\* holds no document, the first Decode returns one empty scalar node carrying
\* that content and every later Decode returns end-of-stream; and in any
\* session the leading content is attached to at most one returned node.
C3_LeadingContentOnce ==
    (pc = "ready" /\ initErr = "nil") =>
        /\ ( /\ sb # ""
             /\ yamlStream = <<>>
             /\ \A i \in DOMAIN results : results[i].kind \notin {"doc", "err"} )
           => \A i \in DOMAIN results :
                 IF i = 1
                 THEN results[i] = [kind |-> "blank", leading |-> sb, document |-> 0]
                 ELSE results[i].kind = "eof"
        /\ Cardinality({i \in DOMAIN results : CarriesLeading(i)}) <= 1

\* C3 witness: a session with leading content and no document, after the
\* blank node and a later end-of-stream result
C3_Witness ==
    /\ pc = "ready"
    /\ initErr = "nil"
    /\ sb # ""
    /\ Len(results) >= 2
    /\ results[1].kind = "blank"
    /\ results[2].kind = "eof"

\* no line of the text holds a tag directive that declares the vendor namespace
NoVendorDirective(text) ==
    \/ ~Contains(text, UnityTagNamespace)
    \/ LET lines == Split(text, "\n")
       IN  \A i \in DOMAIN lines :
               LET t == Index(lines[i], "%TAG")
               IN  t = 0 \/ IndexFrom(lines[i], UnityTagNamespace, t) = 0

AtTagDirective == pc = "scan" /\ Peek(4).err = "nil" /\ Peek(4).data = "%TAG"

\* C7: a tag-directive line of the header scan that declares the vendor
\* namespace is left out of the normalized output and switches dialect mode
\* on; any other tag-directive line is copied to the output unchanged and
\* leaves the mode as it was; and dialect mode, once on, stays on for every
\* later step of the normalization, whose typed separators are then rewritten
\* as bare separators and never as the placeholder.
C7_VendorDirective ==
    [][ /\ AtTagDirective =>
            LET line == SubSeq(input, pos + 1, pos')
            IN  IF Contains(line, UnityTagNamespace)
                THEN isUnityYaml' /\ contentBuffer' = contentBuffer
                ELSE /\ isUnityYaml' = isUnityYaml
                     /\ contentBuffer' = contentBuffer \o line
        /\ (pc = "scan" /\ isUnityYaml) =>
              /\ isUnityYaml'
              /\ (Peek(4).data = "--- " /\ Peek(4).err = "nil"
                    => /\ HasPrefixAt(scanLog'[Len(scanLog')].wrote, 1, "---")
                       /\ contentBuffer' # contentBuffer \o DocSeparatorPlaceholder)
      ]_vars

\* C7 witness: a vendor tag directive was dropped and a later typed separator
\* was classified in dialect mode
C7_Witness ==
    /\ isUnityYaml
    /\ \E i, k \in DOMAIN scanLog :
          /\ i < k
          /\ HasPrefixAt(scanLog[i].read, 1, "%TAG")
          /\ Contains(scanLog[i].read, UnityTagNamespace)
          /\ ~Contains(contentBuffer, UnityTagNamespace)
          /\ HasPrefixAt(scanLog[k].read, 1, "--- ")

\* C8: whenever a read made by processReadStream fails with an error other
\* than end-of-stream, processReadStream returns that error and so does Init;
\* end-of-stream is never returned as an error.
C8_ReadErrorSurfaces ==
    /\ (pc \in {"returned", "ready"} /\ \E i \in DOMAIN scanLog : scanLog[i].failed)
          => retErr = "ERR"
    /\ (pc = "ready" /\ \E i \in DOMAIN scanLog : scanLog[i].failed)
          => initErr = "ERR"
    /\ (pc \in {"returned", "ready"} /\ failAt = -1) => retErr = "nil"

----------------------------------------------------------------------------
(* Properties of a decoder used for several sessions.                      *)

\* the document nodes among the results, in the order Decode returned them
DocumentsOf(rs) == SelectSeq(rs, LAMBDA r : r.kind = "doc")

\* what a Decode step does to the index: a document node is stamped with the
\* current index, which then grows by one; any other result leaves it alone
DecodeStepsIndex ==
    Decode =>
        LET r == results'[Len(results')]
        IN  IF r.kind = "doc"
            THEN r.document = documentIndex /\ documentIndex' = documentIndex + 1
            ELSE documentIndex' = documentIndex

\* C11 (as claimed): every Init sets the document index to 0, whatever the
\* previous session did, and every Decode stamps and increments the index
\* for a document node and leaves it unchanged otherwise.
C11_InitResetsIndex ==
    [][(InitReturn => documentIndex' = 0) /\ DecodeStepsIndex]_vars

\* C11 (amended): every Init that returns without error sets the document
\* index to 0, whatever the previous session did, and an Init that returns an
\* error leaves the index of the previous session as it was; every Decode
\* stamps a document node with the current index and then increments it by
\* one, and leaves it unchanged when it returns the leading-content node, the
\* exhausted result or an error; so after a successful Init the k-th document
\* node returned carries index k-1.
C11_DocumentIndex ==
    /\ [][ /\ (InitReturn /\ retErr = "nil") => documentIndex' = 0
           /\ (InitReturn /\ retErr # "nil") => documentIndex' = documentIndex
           /\ DecodeStepsIndex ]_vars
    /\ []( (pc = "ready" /\ initErr = "nil") =>
              LET docs == DocumentsOf(results)
              IN  /\ documentIndex = Len(docs)
                  /\ \A k \in DOMAIN docs : docs[k].document = k - 1 )

\* C11 witness: in the second session of a decoder, Decode returned an error,
\* then the first document, stamped 0, then the exhausted result
C11_Witness ==
    /\ inits >= 2
    /\ pc = "ready"
    /\ initErr = "nil"
    /\ Len(results) = 3
    /\ results[1].kind = "err"
    /\ results[2].kind = "doc"
    /\ results[2].document = 0
    /\ results[3].kind = "eof"
    /\ documentIndex = 1

----------------------------------------------------------------------------
(* Properties of the normalizer as a machine.                              *)

\* an iteration of the header scan that classifies a line
LineStep ==
    \/ ScanBlank
    \/ ScanTagDirective
    \/ ScanTypedSeparator
    \/ ScanBareSeparator
    \/ ScanComment

\* number of occurrences of p in s
CountOf(s, p) == Cardinality({i \in 1..Len(s) : HasPrefixAt(s, i, p)})

\* the remainder was rewritten as a whole, not line by line: no separator of
\* it became the placeholder, and none of its separator, directive or comment
\* lines was dropped
NotRewrittenByLine(e) ==
    /\ ~Contains(e.wrote, "$yqDocSeparator$")
    /\ CountOf(e.wrote, "\n") = CountOf(e.read, "\n")
    /\ CountOf(e.wrote, "---") = CountOf(e.read, "---")
    /\ CountOf(e.wrote, "%TAG") = CountOf(e.read, "%TAG")
    /\ CountOf(e.wrote, "#") = CountOf(e.read, "#")

\* C13: the normalizer terminates on every input: every iteration of the
\* header scan that classifies a line consumes at least one byte, the
\* iteration that meets the first content line reads all the source still
\* delivers and ends the scan, so that it is the last iteration and no line
\* of the remainder is classified or rewritten by the per-line rules, and
\* every scan that started returns.
C13_ScanTerminates ==
    /\ [][ /\ LineStep => pos' > pos
           /\ (ScanStep /\ pc' = "scan") => pos' > pos
           /\ ScanBulk => /\ pc' = "returned"
                          /\ pos' = IF failLive THEN failAt ELSE Len(input) ]_vars
    /\ []( /\ Len(scanLog) <= Len(input) + 1
           /\ \A i \in DOMAIN scanLog :
                 scanLog[i].kind = "bulk" =>
                    /\ i = Len(scanLog)
                    /\ pc # "scan"
                    /\ ~scanLog[i].failed => NotRewrittenByLine(scanLog[i]) )
    /\ (pc = "scan" ~> pc = "returned")

\* C13 witness: a scan in dialect mode returned after header iterations and
\* one bulk iteration whose remainder, read to the end of the input, holds a
\* typed separator line and a tag-directive line
C13_Witness ==
    /\ pc = "returned"
    /\ isUnityYaml
    /\ pos = Len(input)
    /\ Len(scanLog) >= 2
    /\ scanLog[Len(scanLog)].kind = "bulk"
    /\ Contains(scanLog[Len(scanLog)].read, "\n--- ")
    /\ Contains(scanLog[Len(scanLog)].read, "\n%TAG")

====
